---- MODULE Spec2Model ----
(***************************************************************************)
(* A model of llvm-jit-demo: the comparator synthesizer of                 *)
(* src/src/jit_sort.cpp (createBoolCompareModule, the generated IR and the *)
(* std::sort driver), the NanoJit engine of src/src/nano_jit.{h,cpp}       *)
(* (addModule, lookup, the CompileOnDemandLayer it is built on) and the    *)
(* JitManager singleton.                                                   *)
(*                                                                         *)
(* Values.  Integer fields are the signed values a load of the column's    *)
(* width yields; the comparator only compares them (icmp slt/sgt), it does *)
(* no arithmetic, so the mathematical value is the whole story.  INT32     *)
(* samples include both ends of the 32-bit range.  A double field is a     *)
(* record [nan, val]: nan is TRUE for a NaN, val is the number otherwise.  *)
(***************************************************************************)
EXTENDS Integers, Sequences, FiniteSets, TLC

VARIABLES
    \* comparator synthesis and one call of the generated function
    schema, keys, fn, rowA, rowB, result, path, cmpPc,
    \* the std::sort driver of jit_sort.cpp main
    rows, sortedRows, sortPc,
    \* two runs of the naming loop
    nameKeysA, nameKeysB, nameA, nameB, namePc,
    \* the engine: main JITDylib symbol table, translated bodies, history
    mainSyms, compiled, ingested, held, lastOp,
    \* JitManager::get under threads
    tpc, flag, initFlag, created, instance, constructions, targetInits,
    handedOut, callsMade, aborted,
    \* history: the threads that were waiting at the flag when it was set
    released,
    \* one run of createBoolCompareModule on unvalidated arguments
    gen,
    \* threads sharing the engine: position, pointer in hand, functions
    \* being materialized, and how often each function was translated
    cpc, ctarget, compiling, compileCount

cmpVars == <<schema, keys, fn, rowA, rowB, result, path, cmpPc>>
sortVars == <<rows, sortedRows, sortPc>>
nameVars == <<nameKeysA, nameKeysB, nameA, nameB, namePc>>
engineVars == <<mainSyms, compiled, ingested, held, lastOp>>
singletonVars == <<tpc, flag, initFlag, created, instance, constructions,
                   targetInits, handedOut, callsMade, aborted, released>>
genVars == <<gen>>
concVars == <<cpc, ctarget, compiling, compileCount>>
vars == <<cmpVars, sortVars, nameVars, engineVars, singletonVars, genVars,
          concVars>>

(***************************************************************************)
(* Bounds of the model.                                                    *)
(***************************************************************************)
MaxKeys == 2
MaxRows == 4
MaxNameKeys == 2
NumThreads == 3
MaxCalls == 2

NumCallers == 2

(***************************************************************************)
(* 1. Metadata (jit_sort.cpp, "Metadata Definitions").                     *)
(***************************************************************************)
JITType == {"INT32", "INT64", "DOUBLE"}

ColumnInfo(t, off) == [type |-> t, offset |-> off]

SortKey(c, asc) == [columnIndex |-> c, isAscending |-> asc]

\* The schema of main, [Int32 (0-3)] [Double (4-11)], and a second layout
\* that also has an INT64 column.
DemoSchema == <<ColumnInfo("INT32", 0), ColumnInfo("DOUBLE", 4)>>

WideSchema == <<ColumnInfo("INT64", 0), ColumnInfo("INT32", 8),
                ColumnInfo("DOUBLE", 12)>>

Schemas == {DemoSchema, WideSchema}

IntMax32 == 2147483647

IntMin32 == (-IntMax32) - 1

NaN == [nan |-> TRUE, val |-> 0]

Dbl(v) == [nan |-> FALSE, val |-> v]

Int32Samples == {IntMin32, -1, 1, IntMax32}

Int64Samples == {-5, 7}

DoubleSamples == {NaN, Dbl(5), Dbl(10)}

Samples(t) ==
    IF t = "INT32" THEN Int32Samples
    ELSE IF t = "INT64" THEN Int64Samples
    ELSE DoubleSamples

EmptyFcn == [n \in {} |-> 0]

\* Raw row memory: the field stored at each byte offset of the layout.
RECURSIVE RowsFrom(_, _)
RowsFrom(s, i) ==
    IF i > Len(s) THEN {EmptyFcn}
    ELSE {(s[i].offset :> v) @@ r : v \in Samples(s[i].type), r \in RowsFrom(s, i + 1)}

RowsOf(s) == RowsFrom(s, 1)

\* Key lists with valid column indices (0-based, as in SortKey).
KeysOf(s) == {SortKey(c, asc) : c \in 0..(Len(s) - 1), asc \in BOOLEAN}

SeqsUpTo(S, n) == UNION {[1..m -> S] : m \in 0..n}

KeySeqs(s) == SeqsUpTo(KeysOf(s), MaxKeys)

(***************************************************************************)
(* 2. The function name (jit_sort.cpp:70-76).                              *)
(***************************************************************************)
Digits == <<"0", "1", "2", "3", "4", "5", "6", "7", "8", "9">>

\* std::to_string(int): decimal digits, most significant first.
RECURSIVE to_string(_)
to_string(n) ==
    IF n < 0 THEN "-" \o to_string(-n)
    ELSE IF n < 10 THEN Digits[n + 1]
    ELSE to_string(n \div 10) \o Digits[(n % 10) + 1]

KeySuffixNoDirection(k) == "_" \o to_string(k.columnIndex)

\* "_" + std::to_string(k.columnIndex) + (k.isAscending ? "a" : "d")
KeySuffix(k) ==
    "_" \o to_string(k.columnIndex) \o (IF k.isAscending THEN "a" ELSE "d")

RECURSIVE FuncNameLoop(_, _, _)
FuncNameLoop(funcName, ks, i) ==
    IF i > Len(ks) THEN funcName
    ELSE FuncNameLoop(funcName \o KeySuffix(ks[i]), ks, i + 1)

FuncName(ks) == FuncNameLoop("cmp", ks, 1)

(***************************************************************************)
(* 3. The generated IR (jit_sort.cpp:91-203).  A function is a map from    *)
(* block labels to blocks; a block is a list of instructions and a         *)
(* terminator.  Offsets, types and predicates are baked in at generation.  *)
(***************************************************************************)
\* The block the builder's insert point is in when iteration i (0-based)
\* starts: "entry" for i = 0, "next_<i-1>" afterwards.
InsertPoint(i) == IF i = 0 THEN "entry" ELSE "next_" \o to_string(i - 1)

CheckInvLabel(i) == "check_inv_" \o to_string(i)

NextLabel(i) == "next_" \o to_string(i)

RetTrueLabel(i) == "ret_true_" \o to_string(i)

RetFalseLabel(i) == "ret_false_" \o to_string(i)

\* The number of bytes a load of the type reads (i32; i64 and double).
TypeWidthAlwaysEight(t) == 8

TypeWidth(t) == IF t = "INT32" THEN 4 ELSE 8

LoadInstr(dst, base, off, t) ==
    [op |-> "load", dst |-> dst, base |-> base, offset |-> off, type |-> t,
     width |-> TypeWidth(t)]

CmpInstr(dst, pred, lhs, rhs) ==
    [op |-> "cmp", dst |-> dst, pred |-> pred, lhs |-> lhs, rhs |-> rhs]

CondBr(cond, ifTrue, ifFalse) ==
    [op |-> "condbr", cond |-> cond, ifTrue |-> ifTrue, ifFalse |-> ifFalse]

Ret(v) == [op |-> "ret", value |-> v]

Block(instrs, term) == [instrs |-> instrs, term |-> term]

\* Step B: the predicate of "strictly meets condition".
CondTruePredUnsigned(t, asc) ==
    IF t = "DOUBLE" THEN (IF asc THEN "OLT" ELSE "OGT")
    ELSE (IF asc THEN "ULT" ELSE "UGT")

CondTruePred(t, asc) ==
    IF t = "DOUBLE" THEN (IF asc THEN "OLT" ELSE "OGT")
    ELSE (IF asc THEN "SLT" ELSE "SGT")

\* Step C: the predicate of "strictly opposite condition" ...
CondFalsePred(t, asc) ==
    IF t = "DOUBLE" THEN (IF asc THEN "OLT" ELSE "OGT")
    ELSE (IF asc THEN "SLT" ELSE "SGT")

\* ... and its operands, (valB, valA).
CondFalseOperandsNotSwapped(a, b) == <<a, b>>

CondFalseOperands(a, b) == <<b, a>>

\* The blocks iteration i of the key loop creates and fills.
KeyBlocks(s, ks, i) ==
    LET key == ks[i + 1]
        colInfo == s[key.columnIndex + 1]
        n == to_string(i)
        valA == "valA" \o n
        valB == "valB" \o n
        condTrue == "condTrue" \o n
        condFalse == "condFalse" \o n
        inv == CondFalseOperands(valA, valB)
    IN  (InsertPoint(i) :>
            Block(<<LoadInstr(valA, "A", colInfo.offset, colInfo.type),
                    LoadInstr(valB, "B", colInfo.offset, colInfo.type),
                    CmpInstr(condTrue, CondTruePred(colInfo.type, key.isAscending),
                             valA, valB)>>,
                  CondBr(condTrue, RetTrueLabel(i), CheckInvLabel(i))))
        @@ (CheckInvLabel(i) :>
            Block(<<CmpInstr(condFalse, CondFalsePred(colInfo.type, key.isAscending),
                             inv[1], inv[2])>>,
                  CondBr(condFalse, RetFalseLabel(i), NextLabel(i))))
        @@ (RetTrueLabel(i) :> Block(<<>>, Ret(TRUE)))
        @@ (RetFalseLabel(i) :> Block(<<>>, Ret(FALSE)))

\* The loop over the keys, then "4. End of Function": ret false in the block
\* the insert point was left in.
RECURSIVE EmitKeys(_, _, _)
EmitKeys(s, ks, i) ==
    IF i >= Len(ks) THEN (InsertPoint(i) :> Block(<<>>, Ret(FALSE)))
    ELSE KeyBlocks(s, ks, i) @@ EmitKeys(s, ks, i + 1)

createBoolCompareModule(s, ks) ==
    [name |-> FuncName(ks), blocks |-> EmitKeys(s, ks, 0)]

NoFn == [name |-> "", blocks |-> EmptyFcn]

(***************************************************************************)
(* 4. Execution of the generated function on two rows.                     *)
(***************************************************************************)
\* load <type>, ptr (base + offset)
Load(row, off, t) == row[off]

\* icmp slt / sgt (and the unsigned forms): two's complement order.
ICmp(pred, x, y) ==
    IF pred = "SLT" THEN x < y
    ELSE IF pred = "SGT" THEN x > y
    ELSE IF pred = "ULT"
         THEN (IF (x < 0) = (y < 0) THEN x < y ELSE y < 0)
    ELSE (IF (x < 0) = (y < 0) THEN x > y ELSE x < 0)

\* fcmp ult / ugt: unordered, TRUE when an operand is NaN.
FCmpUnordered(pred, x, y) ==
    x.nan \/ y.nan \/ (IF pred = "OLT" THEN x.val < y.val ELSE x.val > y.val)

\* fcmp olt / ogt: ordered, FALSE when an operand is NaN.
FCmp(pred, x, y) ==
    /\ ~x.nan
    /\ ~y.nan
    /\ (IF pred = "OLT" THEN x.val < y.val ELSE x.val > y.val)

EvalCmp(pred, x, y) ==
    IF pred \in {"OLT", "OGT"} THEN FCmp(pred, x, y) ELSE ICmp(pred, x, y)

RECURSIVE ExecInstrs(_, _, _, _, _)
ExecInstrs(instrs, i, env, a, b) ==
    IF i > Len(instrs) THEN env
    ELSE LET I == instrs[i]
             v == IF I.op = "load"
                  THEN Load(IF I.base = "A" THEN a ELSE b, I.offset, I.type)
                  ELSE EvalCmp(I.pred, env[I.lhs], env[I.rhs])
         IN  ExecInstrs(instrs, i + 1, (I.dst :> v) @@ env, a, b)

RECURSIVE RunFrom(_, _, _, _, _, _)
RunFrom(f, label, env, a, b, visited) ==
    LET blk == f.blocks[label]
        env2 == ExecInstrs(blk.instrs, 1, env, a, b)
        seen == Append(visited, label)
    IN  IF blk.term.op = "ret"
        THEN [ret |-> blk.term.value, path |-> seen]
        ELSE RunFrom(f, IF env2[blk.term.cond] THEN blk.term.ifTrue
                        ELSE blk.term.ifFalse,
                     env2, a, b, seen)

\* compareFn(a, b): a call of the function at its entry block.
CallCompare(f, a, b) == RunFrom(f, "entry", EmptyFcn, a, b, <<>>)

Compare(f, a, b) == CallCompare(f, a, b).ret

(***************************************************************************)
(* Specification SpecCompare: synthesize a comparator for a schema and a   *)
(* key list, then call it on pairs of rows.                                *)
(***************************************************************************)
NoRow == EmptyFcn

SortIdle == /\ rows = <<>> /\ sortedRows = <<>> /\ sortPc = "off"

NameIdle ==
    /\ nameKeysA = <<>> /\ nameKeysB = <<>>
    /\ nameA = "" /\ nameB = "" /\ namePc = "off"

NoAddr == <<>>

NoOp == [op |-> "none", unit |-> "", name |-> "", ok |-> TRUE, err |-> "",
         addr |-> NoAddr]

EngineIdle ==
    /\ mainSyms = EmptyFcn /\ compiled = {} /\ ingested = {}
    /\ held = {} /\ lastOp = NoOp

GenIdle == gen = [pc |-> "off"]

ConcIdle ==
    /\ cpc = EmptyFcn /\ ctarget = EmptyFcn
    /\ compiling = {} /\ compileCount = EmptyFcn

SingletonIdle ==
    /\ tpc = EmptyFcn /\ flag = "off" /\ initFlag = "off" /\ instance = 0
    /\ created = EmptyFcn /\ released = {}
    /\ constructions = 0 /\ targetInits = 0 /\ handedOut = {}
    /\ callsMade = EmptyFcn /\ aborted = FALSE

CmpInit ==
    /\ schema \in Schemas
    /\ keys \in KeySeqs(schema)
    /\ fn = NoFn
    /\ rowA = NoRow /\ rowB = NoRow
    /\ result = FALSE
    /\ path = <<>>
    /\ cmpPc = "start"

Synthesize ==
    /\ cmpPc = "start"
    /\ fn' = createBoolCompareModule(schema, keys)
    /\ cmpPc' = "generated"
    /\ UNCHANGED <<schema, keys, rowA, rowB, result, path>>

Invoke(a, b) ==
    /\ cmpPc = "generated"
    /\ LET r == CallCompare(fn, a, b)
       IN  /\ result' = r.ret
           /\ path' = r.path
    /\ rowA' = a
    /\ rowB' = b
    /\ cmpPc' = "returned"
    /\ UNCHANGED <<schema, keys, fn>>

\* The caller is done with the result and may call again.
Release ==
    /\ cmpPc = "returned"
    /\ rowA' = NoRow /\ rowB' = NoRow
    /\ result' = FALSE
    /\ path' = <<>>
    /\ cmpPc' = "generated"
    /\ UNCHANGED <<schema, keys, fn>>

CompareInit ==
    /\ CmpInit /\ SortIdle /\ NameIdle /\ EngineIdle /\ SingletonIdle
    /\ GenIdle /\ ConcIdle

CompareNext ==
    \/ Synthesize /\ UNCHANGED <<sortVars, nameVars, engineVars, singletonVars, genVars, concVars>>
    \/ \E a \in RowsOf(schema), b \in RowsOf(schema) :
          Invoke(a, b) /\ UNCHANGED <<sortVars, nameVars, engineVars, singletonVars, genVars, concVars>>
    \/ Release /\ UNCHANGED <<sortVars, nameVars, engineVars, singletonVars, genVars, concVars>>

SpecCompare == CompareInit /\ [][CompareNext]_vars

(***************************************************************************)
(* The key order the claims speak of, stated on the schema and the keys    *)
(* (not on the generated blocks).                                          *)
(***************************************************************************)
FieldOf(s, k, r) == r[s[k.columnIndex + 1].offset]

IsFloatKey(s, k) == s[k.columnIndex + 1].type = "DOUBLE"

\* a strictly precedes b under key k: signed A<B / A>B for integers,
\* ordered A<B / A>B for floats.
KeyPrecedes(s, k, a, b) ==
    LET x == FieldOf(s, k, a)
        y == FieldOf(s, k, b)
    IN  IF IsFloatKey(s, k)
        THEN /\ ~x.nan
             /\ ~y.nan
             /\ (IF k.isAscending THEN x.val < y.val ELSE x.val > y.val)
        ELSE (IF k.isAscending THEN x < y ELSE x > y)

KeyTied(s, k, a, b) == ~KeyPrecedes(s, k, a, b) /\ ~KeyPrecedes(s, k, b, a)

\* TRUE iff the first key that does not tie says a precedes b.
FirstDecidingSaysPrecedes(s, ks, a, b) ==
    \E i \in 1..Len(ks) :
        /\ \A j \in 1..(i - 1) : KeyTied(s, ks[j], a, b)
        /\ KeyPrecedes(s, ks[i], a, b)

HasNaN(s, k, a, b) ==
    IsFloatKey(s, k) /\ (FieldOf(s, k, a).nan \/ FieldOf(s, k, b).nan)

Returned == cmpPc = "returned"

\* C1: compare(rowA, rowB) is TRUE iff the first key on which the rows are
\* not tied says rowA strictly precedes rowB; FALSE when that key says rowA
\* follows rowB, and FALSE when every key ties (the empty list included).
C1_CascadeDecides ==
    Returned => (result <=> FirstDecidingSaysPrecedes(schema, keys, rowA, rowB))

\* A call decided by the second key after a tie on the first, returning TRUE.
C1_Witness ==
    /\ Returned
    /\ Len(keys) = 2
    /\ KeyTied(schema, keys[1], rowA, rowB)
    /\ KeyPrecedes(schema, keys[2], rowA, rowB)
    /\ result

\* C2: compare(a,b) and compare(b,a) are never both TRUE and compare(a,a)
\* is FALSE, NaN fields and extreme integers included.
C2_AntisymmetricIrreflexive ==
    Returned =>
        /\ ~(result /\ Compare(fn, rowB, rowA))
        /\ ~Compare(fn, rowA, rowA)
        /\ ~Compare(fn, rowB, rowB)

\* A call that returned TRUE on a row with the least INT32 against a row
\* holding a NaN.
C2_Witness ==
    /\ Returned
    /\ result
    /\ \E i \in 1..Len(keys) : HasNaN(schema, keys[i], rowA, rowB)
    /\ \E i \in 1..Len(keys) :
          /\ ~IsFloatKey(schema, keys[i])
          /\ FieldOf(schema, keys[i], rowA) = IntMin32

\* The keys of ks on which neither row holds a NaN.
RECURSIVE WithoutNaNKeys(_, _, _, _)
WithoutNaNKeys(s, ks, a, b) ==
    IF ks = <<>> THEN <<>>
    ELSE IF HasNaN(s, Head(ks), a, b)
         THEN WithoutNaNKeys(s, Tail(ks), a, b)
         ELSE <<Head(ks)>> \o WithoutNaNKeys(s, Tail(ks), a, b)

InPath(label) == \E p \in 1..Len(path) : path[p] = label

\* C3: a float key on which either row holds a NaN is tied, ascending or
\* descending: neither its ret_true nor its ret_false block is entered, and
\* the result is the one the other keys give (FALSE if none decides).
C3_NaNKeyTies ==
    Returned =>
        /\ \A i \in 1..Len(keys) :
              HasNaN(schema, keys[i], rowA, rowB) =>
                  /\ ~InPath(RetTrueLabel(i - 1))
                  /\ ~InPath(RetFalseLabel(i - 1))
        /\ ((\E i \in 1..Len(keys) : HasNaN(schema, keys[i], rowA, rowB)) =>
              (result <=> FirstDecidingSaysPrecedes(
                              schema, WithoutNaNKeys(schema, keys, rowA, rowB),
                              rowA, rowB)))

\* A NaN on the first key, and the second key deciding the call.
C3_Witness ==
    /\ Returned
    /\ Len(keys) = 2
    /\ HasNaN(schema, keys[1], rowA, rowB)
    /\ ~HasNaN(schema, keys[2], rowA, rowB)
    /\ InPath(RetTrueLabel(1))
    /\ result

Tied(f, a, b) == ~Compare(f, a, b) /\ ~Compare(f, b, a)

\* C4: the comparator is a strict weak ordering: irreflexive, asymmetric,
\* and ties are transitive (a tied b and b tied c imply a tied c), also
\* when b holds a NaN.
C4_StrictWeakOrdering ==
    Returned =>
        /\ ~Compare(fn, rowA, rowA)
        /\ ~(result /\ Compare(fn, rowB, rowA))
        /\ \A c \in RowsOf(schema) :
              (Tied(fn, rowA, rowB) /\ Tied(fn, rowB, c)) => Tied(fn, rowA, c)

\* The memory instructions a call executed, in order: those of the blocks
\* on its path.  (The generator emits loads only; any other instruction
\* touching memory would show up here with its own op.)
RECURSIVE MemoryAccesses(_, _, _)
MemoryAccesses(f, visited, i) ==
    IF i > Len(visited) THEN <<>>
    ELSE SelectSeq(f.blocks[visited[i]].instrs,
                   LAMBDA I : I.op \notin {"cmp"})
         \o MemoryAccesses(f, visited, i + 1)

\* The widths the schema's types stand for.
ColumnBytes(t) == IF t = "INT32" THEN 4 ELSE IF t \in {"INT64", "DOUBLE"} THEN 8 ELSE 0

FieldLoad(base, s, k) ==
    [op |-> "load", base |-> base, offset |-> s[k.columnIndex + 1].offset,
     width |-> ColumnBytes(s[k.columnIndex + 1].type)]

AccessOf(I) == [op |-> I.op, base |-> I.base, offset |-> I.offset, width |-> I.width]

\* C13: a call only loads (it stores nothing, so both rows are as the
\* caller passed them), and what it loads is, for the keys 1..n it examined
\* and in their order, the key's column of row A and then of row B, at the
\* schema's offset and with the type's width (4 bytes for INT32, 8 for
\* INT64 and DOUBLE); key j is examined only when all keys before it tied.
C13_ReadsOnlyKeyColumns ==
    Returned =>
        LET acc == MemoryAccesses(fn, path, 1)
            n == Len(acc) \div 2
        IN  /\ \A i \in 1..Len(acc) : acc[i].op = "load"
            /\ Len(acc) = 2 * n
            /\ n <= Len(keys)
            /\ \A j \in 1..n :
                  /\ AccessOf(acc[2 * j - 1]) = FieldLoad("A", schema, keys[j])
                  /\ AccessOf(acc[2 * j]) = FieldLoad("B", schema, keys[j])
                  /\ \A i \in 1..(j - 1) : KeyTied(schema, keys[i], rowA, rowB)

\* A call that read an INT32 key, found it tied, and went on to read an
\* 8-byte key; and no third field.
C13_Witness ==
    /\ Returned
    /\ Len(keys) = 2
    /\ Len(schema) = 3
    /\ schema[keys[1].columnIndex + 1].type = "INT32"
    /\ schema[keys[2].columnIndex + 1].type = "DOUBLE"
    /\ Len(MemoryAccesses(fn, path, 1)) = 4
    /\ MemoryAccesses(fn, path, 1)[1].width = 4
    /\ MemoryAccesses(fn, path, 1)[3].width = 8
    /\ KeyTied(schema, keys[1], rowA, rowB)

(***************************************************************************)
(* Specification SpecName: the naming loop run on two key lists.  The      *)
(* column indices include one- and two-digit ones.                         *)
(***************************************************************************)
NameIndexSamples == {0, 1, 10}

NameKeys == {SortKey(c, asc) : c \in NameIndexSamples, asc \in BOOLEAN}

NameKeySeqs == SeqsUpTo(NameKeys, MaxNameKeys)

CmpIdle ==
    /\ schema = <<>> /\ keys = <<>> /\ fn = NoFn /\ rowA = NoRow
    /\ rowB = NoRow /\ result = FALSE /\ path = <<>> /\ cmpPc = "off"

NameInit ==
    /\ nameKeysA = <<>> /\ nameKeysB = <<>>
    /\ nameA = "" /\ nameB = ""
    /\ namePc = "start"
    /\ CmpIdle /\ SortIdle /\ EngineIdle /\ SingletonIdle
    /\ GenIdle /\ ConcIdle

NameFirst(ks) ==
    /\ namePc = "start"
    /\ nameKeysA' = ks
    /\ nameA' = FuncName(ks)
    /\ namePc' = "one"
    /\ UNCHANGED <<nameKeysB, nameB>>

NameSecond(ks) ==
    /\ namePc = "one"
    /\ nameKeysB' = ks
    /\ nameB' = FuncName(ks)
    /\ namePc' = "two"
    /\ UNCHANGED <<nameKeysA, nameA>>

NameNext ==
    \/ \E ks \in NameKeySeqs :
          NameFirst(ks) /\ UNCHANGED <<cmpVars, sortVars, engineVars, singletonVars, genVars, concVars>>
    \/ \E ks \in NameKeySeqs :
          NameSecond(ks) /\ UNCHANGED <<cmpVars, sortVars, engineVars, singletonVars, genVars, concVars>>

SpecName == NameInit /\ [][NameNext]_vars

\* Reading a name back: "cmp", then per key '_', decimal digits, 'a' or 'd'.
CharAt(str, p) == SubSeq(str, p, p)

IsDigit(ch) == \E d \in 1..10 : Digits[d] = ch

DigitValue(ch) == (CHOOSE d \in 1..10 : Digits[d] = ch) - 1

\* What a name that does not follow the grammar reads back as: no key list.
Malformed == <<SortKey(-1, FALSE)>>

RECURSIVE DecodeIndex(_, _, _, _)
RECURSIVE DecodeKeys(_, _, _)
DecodeKeys(str, p, acc) ==
    IF p > Len(str) THEN acc
    ELSE IF CharAt(str, p) # "_" \/ p + 2 > Len(str) \/ ~IsDigit(CharAt(str, p + 1))
         THEN Malformed
    ELSE DecodeIndex(str, p + 2, DigitValue(CharAt(str, p + 1)), acc)

DecodeIndex(str, p, n, acc) ==
    IF p > Len(str) THEN Malformed
    ELSE IF IsDigit(CharAt(str, p))
         THEN DecodeIndex(str, p + 1, 10 * n + DigitValue(CharAt(str, p)), acc)
    ELSE IF CharAt(str, p) \in {"a", "d"}
         THEN DecodeKeys(str, p + 1, Append(acc, SortKey(n, CharAt(str, p) = "a")))
    ELSE Malformed

DecodeName(str) ==
    IF Len(str) < 3 \/ SubSeq(str, 1, 3) # "cmp" THEN Malformed
    ELSE DecodeKeys(str, 4, <<>>)

\* C6: the name is "cmp" followed, per key in order, by '_', the decimal
\* column index and 'a' or 'd' (so it reads back as the key list), keys
\* (0,asc),(1,desc) give "cmp_0a_1d", and two different key lists never get
\* the same name.
C6_NameInjective ==
    namePc = "two" =>
        /\ DecodeName(nameA) = nameKeysA
        /\ DecodeName(nameB) = nameKeysB
        /\ (nameKeysA = <<SortKey(0, TRUE), SortKey(1, FALSE)>> => nameA = "cmp_0a_1d")
        /\ (nameA = nameB => nameKeysA = nameKeysB)

\* Two key lists that differ only in how their digits are grouped:
\* (1,asc),(0,desc) against (10,desc).
C6_Witness ==
    /\ namePc = "two"
    /\ nameKeysA = <<SortKey(1, TRUE), SortKey(0, FALSE)>>
    /\ nameKeysB = <<SortKey(10, FALSE)>>
    /\ nameA = "cmp_1a_0d"
    /\ nameB = "cmp_10d"

(***************************************************************************)
(* Specification SpecSort: main of jit_sort.cpp.  The rows are those of    *)
(* sourceData, in any order and number up to MaxRows; the comparator is    *)
(* synthesized for the demo schema and handed to std::sort.                *)
(***************************************************************************)
DemoRow(id, score) == (0 :> id) @@ (4 :> score)

sourceData ==
    {DemoRow(1, Dbl(10)), DemoRow(1, Dbl(20)), DemoRow(2, Dbl(10)),
     DemoRow(1, NaN), DemoRow(1, Dbl(5))}

Range(s) == {s[i] : i \in DOMAIN s}

Arrangements(s) ==
    LET n == Len(s)
        idx == {p \in [1..n -> 1..n] : \A i, j \in 1..n : p[i] = p[j] => i = j}
    IN  {[i \in 1..n |-> s[p[i]]] : p \in idx}

\* No later element strictly precedes an earlier one.
IsSorted(f, s) == \A i, j \in 1..Len(s) : i < j => ~Compare(f, s[j], s[i])

\* std::sort(first, last, comp) as libstdc++ runs it on at most 16
\* elements: __introsort_loop does nothing and __final_insertion_sort is
\* __insertion_sort.  __unguarded_linear_insert(last): shift the elements
\* that val precedes one place up, then drop val (no bound check: the
\* caller has seen that val does not precede the first element).
RECURSIVE UnguardedLinearInsert(_, _, _, _)
UnguardedLinearInsert(f, s, last, val) ==
    IF Compare(f, val, s[last - 1])
    THEN UnguardedLinearInsert(f, [s EXCEPT ![last] = s[last - 1]], last - 1, val)
    ELSE [s EXCEPT ![last] = val]

\* move_backward(first, i, i + 1); *first = val
MoveToFront(s, i) ==
    [j \in 1..Len(s) |-> IF j = 1 THEN s[i] ELSE IF j <= i THEN s[j - 1] ELSE s[j]]

RECURSIVE InsertionSortFrom(_, _, _)
InsertionSortFrom(f, s, i) ==
    IF i > Len(s) THEN s
    ELSE IF Compare(f, s[i], s[1])
         THEN InsertionSortFrom(f, MoveToFront(s, i), i + 1)
         ELSE InsertionSortFrom(f, UnguardedLinearInsert(f, s, i, s[i]), i + 1)

StdSortResult(f, s) == IF s = <<>> THEN s ELSE InsertionSortFrom(f, s, 2)

SortInit ==
    /\ schema = DemoSchema
    /\ keys \in KeySeqs(DemoSchema)
    /\ fn = NoFn /\ rowA = NoRow /\ rowB = NoRow /\ result = FALSE
    /\ path = <<>> /\ cmpPc = "start"
    /\ rows = <<>> /\ sortedRows = <<>> /\ sortPc = "start"
    /\ NameIdle /\ EngineIdle /\ SingletonIdle
    /\ GenIdle /\ ConcIdle

\* rowPtrs: one pointer per row of the pool.
FillRows(rs) ==
    /\ sortPc = "start"
    /\ cmpPc = "generated"
    /\ rows' = rs
    /\ sortPc' = "filled"
    /\ UNCHANGED sortedRows

StdSort ==
    /\ sortPc = "filled"
    /\ sortedRows' = StdSortResult(fn, rows)
    /\ sortPc' = "sorted"
    /\ UNCHANGED rows

SortNext ==
    \/ Synthesize /\ UNCHANGED <<sortVars, nameVars, engineVars, singletonVars, genVars, concVars>>
    \/ \E rs \in SeqsUpTo(sourceData, MaxRows) :
          FillRows(rs) /\ UNCHANGED <<cmpVars, nameVars, engineVars, singletonVars, genVars, concVars>>
    \/ StdSort /\ UNCHANGED <<cmpVars, nameVars, engineVars, singletonVars, genVars, concVars>>

SpecSort == SortInit /\ [][SortNext]_vars

IsPermutationOf(s, t) == s \in Arrangements(t)

\* C5: sorting yields a permutation of the input in which no later row
\* strictly precedes an earlier one, and sorting an already-sorted sequence
\* leaves it unchanged.
C5_SortedPermutation ==
    sortPc = "sorted" =>
        /\ IsPermutationOf(sortedRows, rows)
        /\ IsSorted(fn, sortedRows)
        /\ (IsSorted(fn, rows) => sortedRows = rows)

(***************************************************************************)
(* Specification SpecGen: createBoolCompareModule called with a schema and *)
(* a key list nobody validated.  The function has no check of its own:     *)
(* the module and the function are created first (lines 62 and 84-85), and *)
(* the key loop then evaluates schema[key.columnIndex] with operator[] of  *)
(* std::vector, which is undefined for an index outside the vector, and    *)
(* passes valA and valB, left null for a type none of the three branches   *)
(* handles, to the compare builders.                                       *)
(***************************************************************************)
\* A ColumnInfo whose type is none of the three enumerators.
BadSchema == <<ColumnInfo("INT32", 0), ColumnInfo("UNSUPPORTED", 4)>>

GenSchemas == {DemoSchema, BadSchema}

GenIndexSamples == {-1, 0, 1, 2}

GenKeySeqs ==
    SeqsUpTo({SortKey(c, asc) : c \in GenIndexSamples, asc \in BOOLEAN}, MaxKeys)

\* What the bytes next to the vector's storage may hold.
GarbageColumns == {ColumnInfo("INT32", 64), ColumnInfo("UNSUPPORTED", 0)}

NoColumn == ColumnInfo("", 0)

\* const auto& colInfo = schema[key.columnIndex]; int offset = colInfo.offset;
\* inside the vector the element; outside it a fault or whatever is there.
ColumnRead(s, idx) ==
    IF idx \in 0..(Len(s) - 1)
    THEN {[fault |-> FALSE, col |-> s[idx + 1]]}
    ELSE {[fault |-> TRUE, col |-> NoColumn]}
         \cup {[fault |-> FALSE, col |-> c] : c \in GarbageColumns}

\* The iterations of the key loop that do not complete: the read faulted,
\* or the loads were skipped and a null Value reaches CreateICmp/CreateFCmp.
FailingKeys(ks, c) ==
    {j \in 1..Len(ks) : c[j].fault \/ c[j].col.type \notin JITType}

MinOf(S) == CHOOSE x \in S : \A y \in S : x <= y

\* The function the loop emits when every iteration completes, given the
\* ColumnInfo each iteration read.
EmittedFunction(ks, c) ==
    LET cols == [j \in 1..Len(ks) |-> c[j].col]
        at == [j \in 1..Len(ks) |-> SortKey(j - 1, ks[j].isAscending)]
    IN  [name |-> FuncName(ks), blocks |-> EmitKeys(cols, at, 0)]

\* One call of createBoolCompareModule(schema, keys), start to end.
GenResult(s, ks, c) ==
    LET bad == FailingKeys(ks, c)
    IN  [pc |-> "done", schema |-> s, keys |-> ks,
         moduleCreated |-> TRUE,
         functionCreated |-> FuncName(ks),
         keysEmitted |-> IF bad = {} THEN Len(ks) ELSE MinOf(bad) - 1,
         outcome |-> IF bad = {} THEN "returned" ELSE "crashed",
         unit |-> IF bad = {} THEN EmittedFunction(ks, c) ELSE NoFn]

GenInit ==
    /\ gen \in {[pc |-> "called", schema |-> s, keys |-> ks] :
                   s \in GenSchemas, ks \in GenKeySeqs}
    /\ CmpIdle /\ SortIdle /\ NameIdle /\ EngineIdle /\ SingletonIdle /\ ConcIdle

Generate ==
    /\ gen.pc = "called"
    /\ \E c \in [1..Len(gen.keys) ->
                    UNION {ColumnRead(gen.schema, k.columnIndex) :
                              k \in {gen.keys[j] : j \in 1..Len(gen.keys)}}] :
          /\ \A j \in 1..Len(gen.keys) :
                c[j] \in ColumnRead(gen.schema, gen.keys[j].columnIndex)
          /\ gen' = GenResult(gen.schema, gen.keys, c)
    /\ UNCHANGED <<cmpVars, sortVars, nameVars, engineVars, singletonVars,
                   concVars>>

GenNext == Generate

SpecGen == GenInit /\ [][GenNext]_vars

ValidKeys(s, ks) ==
    \A j \in 1..Len(ks) :
        /\ ks[j].columnIndex \in 0..(Len(s) - 1)
        /\ s[ks[j].columnIndex + 1].type \in JITType

\* C12: a key list with a column index outside the schema, or naming a
\* column of an unsupported type, is rejected before anything is emitted:
\* no module, no function, no unit.  (With valid keys the generator returns
\* the unit createBoolCompareModule describes.)
C12_InvalidKeysRejected ==
    gen.pc = "done" =>
        IF ValidKeys(gen.schema, gen.keys)
        THEN /\ gen.outcome = "returned"
             /\ gen.unit = createBoolCompareModule(gen.schema, gen.keys)
        ELSE /\ gen.outcome = "rejected"
             /\ ~gen.moduleCreated
             /\ gen.functionCreated = ""
             /\ gen.unit = NoFn

(***************************************************************************)
(* Specification Spec: the engine.  NanoJit owns one JITDylib              *)
(* (mainJitDylib_) whose symbol table maps a name to the unit that defines *)
(* it; units are added through the CompileOnDemandLayer, which defers all  *)
(* work: a lookup materializes the requested function's lazy stub, and the *)
(* first call through the stub translates and links the function's body.   *)
(***************************************************************************)
\* The keys of main: id ascending, score descending.
MainKeys == <<SortKey(0, TRUE), SortKey(1, FALSE)>>

\* A compilation unit: a module and the names of the functions it defines.
Unit(module, defs) == [module |-> module, defs |-> defs]

ComparatorUnit(tag, s, ks) == Unit(tag, {createBoolCompareModule(s, ks).name})

\* The units of the two programs (the comparator, generated for either
\* schema; sum_int), a unit holding two functions, and a unit that defines
\* a name the host process exports too.
UnitSamples ==
    {ComparatorUnit("BoolComparatorModule/demo", DemoSchema, MainKeys),
     ComparatorUnit("BoolComparatorModule/wide", WideSchema, MainKeys),
     Unit("SumIntMod", {"sum_int"}),
     Unit("SumPairMod", {"sum_int", "sum_double"}),
     Unit("StrcmpMod", {"strcmp"})}

\* What DynamicLibrarySearchGenerator::GetForCurrentProcess finds.
HostSymbols == {"strcmp"}

LookupNames == UNION {u.defs : u \in UnitSamples} \cup HostSymbols \cup {"no_such_fn"}

UnitOf(module) == CHOOSE u \in UnitSamples : u.module = module

StubAddr(module, name) == <<"stub", module, name>>

HostAddr(name) == <<"host", name>>

IsStub(addr) == addr # NoAddr /\ addr[1] = "stub"

\* JITDylib::define rejects a unit any of whose names is already in the
\* symbol table.
DuplicatesIgnored(defs, syms) == {}

Duplicates(defs, syms) == defs \cap DOMAIN syms

\* NanoJit::addModule: compileOnDemandLayer_->add(mainJitDylib_, module);
\* an error is thrown as std::runtime_error.
AddModule(u) ==
    IF Duplicates(u.defs, mainSyms) # {}
    THEN /\ lastOp' = [op |-> "add", unit |-> u.module, name |-> "", ok |-> FALSE,
                       err |-> "JIT addModule failed: duplicate definition",
                       addr |-> NoAddr]
         /\ UNCHANGED <<mainSyms, compiled, ingested, held>>
    ELSE /\ mainSyms' =
                [n \in u.defs |-> [unit |-> u.module, state |-> "NeverSearched",
                                   addr |-> NoAddr]] @@ mainSyms
         /\ ingested' = ingested \cup u.defs
         /\ lastOp' = [op |-> "add", unit |-> u.module, name |-> "", ok |-> TRUE,
                       err |-> "", addr |-> NoAddr]
         /\ UNCHANGED <<compiled, held>>

\* The generator adds the host symbol it found to the main JITDylib as an
\* absolute symbol.
DefineNothing(syms, name) == syms

DefineAbsolute(syms, name) ==
    (name :> [unit |-> "host", state |-> "Ready", addr |-> HostAddr(name)]) @@ syms

\* ExecutionSession::lookup({&mainJitDylib_}, name): a defined name resolves
\* to its lazy stub (created on the first lookup of that name); an
\* undefined one is offered to the generator, which defines every name the
\* host process exports as an absolute symbol; otherwise the lookup fails.
SessionLookup(syms, name) ==
    IF name \in DOMAIN syms
    THEN LET e == syms[name]
             a == IF e.state = "NeverSearched" THEN StubAddr(e.unit, name)
                  ELSE e.addr
         IN  [found |-> TRUE, addr |-> a,
              syms |-> [syms EXCEPT ![name] = [e EXCEPT !.state = "Ready", !.addr = a]]]
    ELSE IF name \in HostSymbols
    THEN [found |-> TRUE, addr |-> HostAddr(name),
          syms |-> DefineAbsolute(syms, name)]
    ELSE [found |-> FALSE, addr |-> NoAddr, syms |-> syms]

\* if (!symbolOrErr) throw std::runtime_error(...)
LookupNeverThrows(symbolOrErr) == FALSE

LookupThrows(symbolOrErr) == ~symbolOrErr.found

\* NanoJit::lookup<T>(name)
Lookup(name) ==
    LET symbolOrErr == SessionLookup(mainSyms, name)
    IN  IF LookupThrows(symbolOrErr)
        THEN /\ lastOp' = [op |-> "lookup", unit |-> "", name |-> name, ok |-> FALSE,
                           err |-> "JIT lookup failed for symbol", addr |-> NoAddr]
             /\ UNCHANGED <<mainSyms, compiled, ingested, held>>
        ELSE /\ mainSyms' = symbolOrErr.syms
             /\ held' = held \cup {[name |-> name, addr |-> symbolOrErr.addr]}
             /\ lastOp' = [op |-> "lookup", unit |-> "", name |-> name, ok |-> TRUE,
                           err |-> "", addr |-> symbolOrErr.addr]
             /\ UNCHANGED <<compiled, ingested>>

\* The CompileOnDemandLayer is built without a partition function of the
\* caller's, so it extracts the requested function alone from its unit.
PartitionWholeModule(unitDefs, requested) == unitDefs

Partition(unitDefs, requested) == {requested}

\* A call through a pointer lookup returned (sumInt(10, 32), std::sort's
\* calls of compareFn).  A stub that has not run yet goes through the lazy
\* call-through: the function's partition is translated, linked, and the
\* stub is pointed at the body.  A host pointer runs host code.
CallThrough(p) ==
    /\ p \in held
    /\ IF IsStub(p.addr) /\ <<p.addr[2], p.name>> \notin compiled
       THEN compiled' = compiled \cup
                {<<p.addr[2], n>> : n \in Partition(UnitOf(p.addr[2]).defs, p.name)}
       ELSE compiled' = compiled
    /\ lastOp' = [op |-> "call", unit |-> "", name |-> p.name, ok |-> TRUE,
                  err |-> "", addr |-> p.addr]
    /\ UNCHANGED <<mainSyms, ingested, held>>

Init ==
    /\ EngineIdle /\ CmpIdle /\ SortIdle /\ NameIdle /\ SingletonIdle
    /\ GenIdle /\ ConcIdle

Next ==
    \/ \E u \in UnitSamples :
          AddModule(u) /\ UNCHANGED <<cmpVars, sortVars, nameVars, singletonVars, genVars, concVars>>
    \/ \E name \in LookupNames :
          Lookup(name) /\ UNCHANGED <<cmpVars, sortVars, nameVars, singletonVars, genVars, concVars>>
    \/ \E p \in held :
          CallThrough(p) /\ UNCHANGED <<cmpVars, sortVars, nameVars, singletonVars, genVars, concVars>>

Spec == Init /\ [][Next]_vars

AddStep == lastOp'.op = "add"

\* C7: ingesting a unit that defines a name already ingested fails with a
\* duplicate-symbol error and leaves the engine as it was; no step ever
\* drops a defined name or hands it to another unit.
C7_DuplicateRejected ==
    [][/\ (AddStep /\ UnitOf(lastOp'.unit).defs \cap ingested # {}) =>
              /\ ~lastOp'.ok
              /\ lastOp'.err = "JIT addModule failed: duplicate definition"
              /\ UNCHANGED <<mainSyms, compiled, ingested, held>>
       /\ \A n \in DOMAIN mainSyms :
              /\ n \in DOMAIN mainSyms'
              /\ mainSyms'[n].unit = mainSyms[n].unit]_vars

\* The comparator regenerated for the other schema is rejected after a
\* partly overlapping unit was rejected too; the demo schema's comparator
\* and sum_int still resolve.
C7_Witness ==
    /\ lastOp.op = "add"
    /\ ~lastOp.ok
    /\ lastOp.unit = "BoolComparatorModule/wide"
    /\ "cmp_0a_1d" \in DOMAIN mainSyms
    /\ mainSyms["cmp_0a_1d"].unit = "BoolComparatorModule/demo"
    /\ mainSyms["cmp_0a_1d"].state = "Ready"
    /\ "sum_int" \in DOMAIN mainSyms
    /\ mainSyms["sum_int"].unit = "SumIntMod"
    /\ "sum_double" \notin DOMAIN mainSyms

\* C8 as stated: a lookup succeeds only for ingested names, and fails with
\* no pointer for every name never ingested.
C8_NeverIngestedFails ==
    lastOp.op = "lookup" =>
        /\ (lastOp.ok => lastOp.name \in ingested)
        /\ (lastOp.name \notin ingested => (~lastOp.ok /\ lastOp.addr = NoAddr))

\* C8 amended: a lookup fails with a lookup error and no pointer for every
\* name that was never ingested and that the host process does not export;
\* it succeeds only for ingested names and host-exported ones.
C8_UnknownNameFails ==
    lastOp.op = "lookup" =>
        /\ (lastOp.ok => lastOp.name \in ingested \cup HostSymbols)
        /\ (lastOp.ok => lastOp.addr # NoAddr)
        /\ (lastOp.name \notin ingested \cup HostSymbols =>
              /\ ~lastOp.ok
              /\ lastOp.err = "JIT lookup failed for symbol"
              /\ lastOp.addr = NoAddr)

\* A failed lookup of a name no unit defines, in an engine that has units.
C8_Witness ==
    /\ lastOp.op = "lookup"
    /\ lastOp.name = "no_such_fn"
    /\ ~lastOp.ok
    /\ ingested # {}
    /\ \E p \in held : p.name = "strcmp" /\ p.addr = HostAddr("strcmp")

BodyOf(name) == <<mainSyms[name].unit, name>>

C11_AddressStable ==
    /\ \A p \in held :
          /\ SessionLookup(mainSyms, p.name).found
          /\ SessionLookup(mainSyms, p.name).addr = p.addr
          /\ ~LookupThrows(SessionLookup(mainSyms, p.name))
    /\ \A p, q \in held : p.name = q.name => p.addr = q.addr
    /\ (lastOp.op = "lookup" /\ lastOp.ok) =>
          [name |-> lastOp.name, addr |-> lastOp.addr] \in held

\* The comparator is resolved again after it was resolved and called, after
\* the host's strcmp was resolved, and in an engine where the unit
\* redefining strcmp can only have been rejected.
C11_Witness ==
    /\ lastOp.op = "lookup"
    /\ lastOp.ok
    /\ lastOp.name = "cmp_0a_1d"
    /\ BodyOf("cmp_0a_1d") \in compiled
    /\ lastOp.addr = StubAddr(mainSyms["cmp_0a_1d"].unit, "cmp_0a_1d")
    /\ [name |-> "strcmp", addr |-> HostAddr("strcmp")] \in held
    /\ "sum_int" \in ingested

(***************************************************************************)
(* Specification SpecConcurrent: threads sharing the engine.  addModule    *)
(* and lookup run under the ExecutionSession's lock and are steps of their *)
(* own; a call through a stub is split where threads can interleave: the   *)
(* jump through the stub's pointer, the call-through's lookup of the body  *)
(* (which starts the materialization, joins one in progress, or finds the  *)
(* body ready), the end of the translation, and the return of the body.    *)
(* The translation runs on the thread whose lookup started it (the session *)
(* dispatches materialization inline); every translation uses the one      *)
(* SimpleCompiler and TargetMachine the engine owns, with no lock of the   *)
(* engine's around it.                                                     *)
(***************************************************************************)
Callers == 1..NumCallers

ConcUnits == {Unit("SumPairMod", {"sum_int", "sum_double"}),
              Unit("SumIntMod", {"sum_int"})}

ConcNames == {"sum_int", "sum_double", "no_such_fn"}

Bodies == {<<u.module, n>> : u \in ConcUnits, n \in ConcNames}

NoTarget == [name |-> "", addr |-> NoAddr]

BodyAt(p) == <<p.addr[2], p.name>>

\* The functions translated together with the one a call-through asks for.
PartitionOf(p) ==
    {<<p.addr[2], n>> : n \in Partition(UnitOf(p.addr[2]).defs, p.name)}

ConcInit ==
    /\ cpc = [t \in Callers |-> "idle"]
    /\ ctarget = [t \in Callers |-> NoTarget]
    /\ compiling = {}
    /\ compileCount = [b \in Bodies |-> 0]
    /\ EngineIdle /\ CmpIdle /\ SortIdle /\ NameIdle /\ SingletonIdle /\ GenIdle

\* jit.addModule(unit) on thread t.
CAdd(t, u) ==
    /\ cpc[t] = "idle"
    /\ AddModule(u)
    /\ UNCHANGED concVars

\* jit.lookup<T>(name) on thread t; on success the thread holds the pointer.
CLookup(t, name) ==
    /\ cpc[t] = "idle"
    /\ Lookup(name)
    /\ IF lastOp'.ok
       THEN /\ cpc' = [cpc EXCEPT ![t] = "resolved"]
            /\ ctarget' = [ctarget EXCEPT ![t] =
                              [name |-> name, addr |-> lastOp'.addr]]
       ELSE UNCHANGED <<cpc, ctarget>>
    /\ UNCHANGED <<compiling, compileCount>>

\* The call through the pointer: a stub still aimed at the call-through
\* lands there, one already aimed at the body (or a host address) runs it.
CCall(t) ==
    /\ cpc[t] = "resolved"
    /\ cpc' = [cpc EXCEPT ![t] =
                  IF IsStub(ctarget[t].addr) /\ BodyAt(ctarget[t]) \notin compiled
                  THEN "landing" ELSE "body"]
    /\ UNCHANGED <<engineVars, ctarget, compiling, compileCount>>

\* The session's answer to a lookup of a symbol being materialized: the
\* query is queued on the materialization in progress.
NeverMaterializing(b, inProgress) == FALSE

AlreadyMaterializing(b, inProgress) == b \in inProgress

\* The call-through looks the body up in the implementation JITDylib.
CLanding(t) ==
    /\ cpc[t] = "landing"
    /\ LET b == BodyAt(ctarget[t])
       IN  IF b \in compiled
           THEN /\ cpc' = [cpc EXCEPT ![t] = "body"]
                /\ UNCHANGED compiling
           ELSE IF AlreadyMaterializing(b, compiling)
           THEN /\ cpc' = [cpc EXCEPT ![t] = "wait"]
                /\ UNCHANGED compiling
           ELSE /\ cpc' = [cpc EXCEPT ![t] = "compile"]
                /\ compiling' = compiling \cup PartitionOf(ctarget[t])
    /\ UNCHANGED <<engineVars, ctarget, compileCount>>

\* The translation and the link end: the body is ready, the stub is aimed
\* at it, and the thread runs it.
CFinishCompile(t) ==
    /\ cpc[t] = "compile"
    /\ compiled' = compiled \cup PartitionOf(ctarget[t])
    /\ compiling' = compiling \ PartitionOf(ctarget[t])
    /\ compileCount' = [b \in Bodies |->
                           IF b \in PartitionOf(ctarget[t])
                           THEN compileCount[b] + 1 ELSE compileCount[b]]
    /\ cpc' = [cpc EXCEPT ![t] = "body"]
    /\ UNCHANGED <<mainSyms, ingested, held, lastOp, ctarget>>

\* Two translations (of different functions) overlap in the shared
\* SimpleCompiler: a data race, which may also end the process.
CCompileRaces(t) ==
    /\ cpc[t] = "compile"
    /\ \E u \in Callers \ {t} : cpc[u] = "compile"
    /\ cpc' = [u \in Callers |-> "crashed"]
    /\ UNCHANGED <<engineVars, ctarget, compiling, compileCount>>

\* The materialization a thread was queued on has ended.
CWake(t) ==
    /\ cpc[t] = "wait"
    /\ BodyAt(ctarget[t]) \in compiled
    /\ cpc' = [cpc EXCEPT ![t] = "body"]
    /\ UNCHANGED <<engineVars, ctarget, compiling, compileCount>>

\* The called function returns.
CReturn(t) ==
    /\ cpc[t] = "body"
    /\ cpc' = [cpc EXCEPT ![t] = "idle"]
    /\ ctarget' = [ctarget EXCEPT ![t] = NoTarget]
    /\ UNCHANGED <<engineVars, compiling, compileCount>>

ConcNext ==
    \/ \E t \in Callers, u \in ConcUnits :
          CAdd(t, u) /\ UNCHANGED <<cmpVars, sortVars, nameVars, singletonVars, genVars>>
    \/ \E t \in Callers, name \in ConcNames :
          CLookup(t, name) /\ UNCHANGED <<cmpVars, sortVars, nameVars, singletonVars, genVars>>
    \/ \E t \in Callers :
          CCall(t) /\ UNCHANGED <<cmpVars, sortVars, nameVars, singletonVars, genVars>>
    \/ \E t \in Callers :
          CLanding(t) /\ UNCHANGED <<cmpVars, sortVars, nameVars, singletonVars, genVars>>
    \/ \E t \in Callers :
          CFinishCompile(t) /\ UNCHANGED <<cmpVars, sortVars, nameVars, singletonVars, genVars>>
    \/ \E t \in Callers :
          CCompileRaces(t) /\ UNCHANGED <<cmpVars, sortVars, nameVars, singletonVars, genVars>>
    \/ \E t \in Callers :
          CWake(t) /\ UNCHANGED <<cmpVars, sortVars, nameVars, singletonVars, genVars>>
    \/ \E t \in Callers :
          CReturn(t) /\ UNCHANGED <<cmpVars, sortVars, nameVars, singletonVars, genVars>>

SpecConcurrent == ConcInit /\ [][ConcNext]_vars

\* The state of an ingested function.
FnState(b, inProgress, ready) ==
    IF b \in ready THEN "Resident"
    ELSE IF b \in inProgress THEN "Compiling" ELSE "Uninitialized"

\* The moves the state machine allows (staying included).
FnMoves ==
    {<<st, st>> : st \in {"Uninitialized", "Compiling", "Resident"}}
    \cup {<<"Uninitialized", "Compiling">>, <<"Compiling", "Resident">>}

\* Every function moves Uninitialized -> Compiling -> Resident, one state
\* at a time and never back; at most one thread translates a function, a
\* thread that waits waits for a function that is being translated or is
\* ready, and no function is translated twice.
OneCompilerPerFunction ==
    /\ \A b \in Bodies :
          LET now == FnState(b, compiling, compiled)
              next == FnState(b, compiling', compiled')
          IN  <<now, next>> \in FnMoves
    /\ \A b \in Bodies : compileCount'[b] <= 1
    /\ \A b \in Bodies :
          (compileCount'[b] = 1) <=> (FnState(b, compiling', compiled') = "Resident")
    /\ \A b \in Bodies :
          FnState(b, compiling', compiled') = "Compiling" =>
              Cardinality({t \in Callers : /\ cpc'[t] = "compile"
                                           /\ b \in PartitionOf(ctarget'[t])}) <= 1
    /\ \A t \in Callers :
          cpc'[t] = "wait" =>
              FnState(BodyAt(ctarget'[t]), compiling', compiled') # "Uninitialized"

ResolveStep(t) == cpc[t] = "idle" /\ cpc'[t] = "resolved"

Threads == 1..NumThreads

Null == 0

SingletonInit ==
    /\ tpc = [t \in Threads |-> "idle"]
    /\ flag = "fresh"
    /\ initFlag = "fresh"
    /\ created = [t \in Threads |-> Null]
    /\ instance = Null
    /\ constructions = 0
    /\ targetInits = 0
    /\ handedOut = {}
    /\ callsMade = [t \in Threads |-> 0]
    /\ aborted = FALSE
    /\ released = {}
    /\ CmpIdle /\ SortIdle /\ NameIdle /\ EngineIdle
    /\ GenIdle /\ ConcIdle

\* A thread calls JitManager::get().
EnterGet(t) ==
    /\ ~aborted
    /\ tpc[t] = "idle"
    /\ callsMade[t] < MaxCalls
    /\ tpc' = [tpc EXCEPT ![t] = "call_once"]
    /\ UNCHANGED <<flag, initFlag, created, instance, constructions, targetInits,
                   handedOut, callsMade, aborted, released>>

\* The state call_once leaves the flag in while the callable runs.
OnceNotClaimed(f) == f

OnceClaimed(f) == "active"

\* call_once, flag not yet used: this thread runs the callable.
OnceRun(t) ==
    /\ ~aborted
    /\ tpc[t] = "call_once"
    /\ flag = "fresh"
    /\ flag' = OnceClaimed(flag)
    /\ tpc' = [tpc EXCEPT ![t] = "create"]
    /\ UNCHANGED <<initFlag, created, instance, constructions, targetInits,
                   handedOut, callsMade, aborted, released>>

\* call_once, callable already returned: pass.
OncePass(t) ==
    /\ ~aborted
    /\ tpc[t] = "call_once"
    /\ flag = "done"
    /\ tpc' = [tpc EXCEPT ![t] = "return"]
    /\ UNCHANGED <<flag, initFlag, created, instance, constructions, targetInits,
                   handedOut, callsMade, aborted, released>>

\* NanoJit::create, first part: the native target is initialized once.
InitTargets(t) ==
    /\ ~aborted
    /\ tpc[t] = "create"
    /\ IF initFlag = "fresh"
       THEN /\ initFlag' = "done"
            /\ targetInits' = targetInits + 1
       ELSE UNCHANGED <<initFlag, targetInits>>
    /\ tpc' = [tpc EXCEPT ![t] = "construct"]
    /\ UNCHANGED <<flag, created, instance, constructions, handedOut, callsMade,
                   aborted, released>>

\* NanoJit::create, the rest: the session and the layers are built and the
\* new engine is returned.
Construct(t) ==
    /\ ~aborted
    /\ tpc[t] = "construct"
    /\ constructions' = constructions + 1
    /\ created' = [created EXCEPT ![t] = constructions + 1]
    /\ tpc' = [tpc EXCEPT ![t] = "assign"]
    /\ UNCHANGED <<flag, initFlag, instance, targetInits, handedOut, callsMade,
                   aborted, released>>

\* A cantFail in create or in the constructor fails: the process ends.
ConstructAborts(t) ==
    /\ ~aborted
    /\ tpc[t] = "construct"
    /\ aborted' = TRUE
    /\ UNCHANGED <<tpc, flag, initFlag, created, instance, constructions,
                   targetInits, handedOut, callsMade, released>>

\* instance = NanoJit::create(); the callable returns and call_once marks
\* the flag.
AssignInstance(t) ==
    /\ ~aborted
    /\ tpc[t] = "assign"
    /\ instance' = created[t]
    /\ flag' = "done"
    /\ released' = {u \in Threads : tpc[u] = "call_once"}
    /\ tpc' = [tpc EXCEPT ![t] = "return"]
    /\ UNCHANGED <<initFlag, created, constructions, targetInits, handedOut,
                   callsMade, aborted>>

\* return *instance;
ReturnInstance(t) ==
    /\ ~aborted
    /\ tpc[t] = "return"
    /\ handedOut' = handedOut \cup {instance}
    /\ callsMade' = [callsMade EXCEPT ![t] = @ + 1]
    /\ tpc' = [tpc EXCEPT ![t] = "idle"]
    /\ UNCHANGED <<flag, initFlag, created, instance, constructions, targetInits,
                   aborted, released>>

SingletonNext ==
    \/ \E t \in Threads :
          EnterGet(t) /\ UNCHANGED <<cmpVars, sortVars, nameVars, engineVars, genVars, concVars>>
    \/ \E t \in Threads :
          OnceRun(t) /\ UNCHANGED <<cmpVars, sortVars, nameVars, engineVars, genVars, concVars>>
    \/ \E t \in Threads :
          OncePass(t) /\ UNCHANGED <<cmpVars, sortVars, nameVars, engineVars, genVars, concVars>>
    \/ \E t \in Threads :
          InitTargets(t) /\ UNCHANGED <<cmpVars, sortVars, nameVars, engineVars, genVars, concVars>>
    \/ \E t \in Threads :
          Construct(t) /\ UNCHANGED <<cmpVars, sortVars, nameVars, engineVars, genVars, concVars>>
    \/ \E t \in Threads :
          ConstructAborts(t) /\ UNCHANGED <<cmpVars, sortVars, nameVars, engineVars, genVars, concVars>>
    \/ \E t \in Threads :
          AssignInstance(t) /\ UNCHANGED <<cmpVars, sortVars, nameVars, engineVars, genVars, concVars>>
    \/ \E t \in Threads :
          ReturnInstance(t) /\ UNCHANGED <<cmpVars, sortVars, nameVars, engineVars, genVars, concVars>>

SpecSingleton == SingletonInit /\ [][SingletonNext]_vars

\* C10: the engine is constructed at most once, and exactly once before any
\* call returns; a call returns only after the construction and the
\* assignment of instance have completed; every call returns that instance.
C10_ConstructedOnce ==
    /\ constructions <= 1
    /\ targetInits <= 1
    /\ \A t \in Threads :
          tpc[t] = "return" =>
              /\ constructions = 1
              /\ flag = "done"
              /\ instance # Null
    /\ handedOut # {} =>
          /\ constructions = 1
          /\ flag = "done"
          /\ instance # Null
          /\ handedOut = {instance}

\* Every thread has made all its calls, the first ones racing: two threads
\* were waiting at the flag when the constructing thread set it.
C10_Witness ==
    /\ \A t \in Threads : callsMade[t] = MaxCalls
    /\ Cardinality(released) >= 2
    /\ constructions = 1
    /\ handedOut = {instance}
    /\ instance # Null

====
